---- MODULE Spec2Model ----
(***************************************************************************)
(* A model of the catalog database layer of sims_catalogs_generation       *)
(* (db/rewrite/dbConnection.py): ObservationMetaData, the constraint       *)
(* builder, the column projection, the eager query and the ChunkIterator,  *)
(* exercised on the "Nonsense" catalog type of tests/testDbobject.py.      *)
(* SpecRegistry covers the class registry of the same file (DBObjectMeta,   *)
(* DBObject.from_objid, DBObject.__init__), SpecMovingObjects the          *)
(* MovingObjectList of movingObjects/movingObjectList.py (ephemerides,     *)
(* field of view, appending, the calls made to pyoorb) and SpecSNR its     *)
(* signal-to-noise cut.                                                    *)
(*                                                                         *)
(* Numbers.  Sky coordinates and magnitudes are integers (degrees, mag).   *)
(* The constraint builder formats its bounds with "%f", which rounds to    *)
(* six decimals; on the integer and half-integer-cosine inputs used here   *)
(* that rounding returns the integer and absorbs the floating point error  *)
(* of radius / cos(radians(60)).  A projected column 'ra*0.017453' is      *)
(* evaluated in millionths: the value is ra * 17453.                       *)
(* Python's None is the record [tag |-> "None"]; a present optional value  *)
(* v is [tag |-> "Some", v |-> v]; an attribute never assigned is          *)
(* [tag |-> "absent"].  An OrderedDict is a sequence of <<key, value>>.    *)
(* A raised exception is the "err" field of a result; "" means none.       *)
(*                                                                         *)
(* A class is the record of the attributes its body assigns; an attribute  *)
(* the body leaves out is inherited from DBObject, where it is None.  The  *)
(* registry is a function from the registered objids to classes.           *)
(*                                                                         *)
(* A MovingObject is a number; its Ephemerides mapping is a set of entries *)
(* [key, val] with one entry per key.  Epochs are integers that count      *)
(* halves of the last digit an epoch string keeps.  Of an Ephemeris the    *)
(* epoch, the position (ra, dec in degrees) and the filter magnitude (in    *)
(* tenths of a magnitude) are kept.                                        *)
(***************************************************************************)
EXTENDS Integers, Sequences, FiniteSets, TLC

VARIABLES
    table,   \* the rows of the catalog table "test", in cursor order
    md,      \* the ObservationMetaData instance the program holds
    mdLast,  \* the most recent operation, when it was an ObservationMetaData
             \* call: its arguments and outcome
    q,       \* the most recent operation, when it was a query_columns call:
             \* its arguments and outcome
    registry,  \* DBObject.registry: the class registered under each objid
    regLast,   \* the most recent class definition or from_objid call and
               \* its outcome
    Ephemerides,  \* the Ephemerides mapping of each MovingObject
    lists,     \* the Python lists of MovingObjects: lists[1] is _mObjects of
               \* the program's MovingObjectList, lists[2] the list of the
               \* MovingObjectList a call returned
    fovList,   \* the list held by the MovingObjectList last returned by
               \* getMovingObjectsInFieldofView or cutAllSNR (an index of
               \* lists, 0: none)
    oorbLog,   \* the calls the process has made to pyoorb, in order
    moLast     \* the most recent MovingObjectList call and its outcome

dbVars == <<table, md, mdLast, q>>
regVars == <<registry, regLast>>
moVars == <<Ephemerides, lists, fovList, oorbLog, moLast>>
vars == <<dbVars, regVars, moVars>>

(* ------------------------------ bounds --------------------------------- *)
MaxRows == 3    \* rows in the table
MaxChunk == 2   \* largest chunk_size tried
MaxObjs == 2    \* MovingObjects of the program
MaxInits == 2   \* calls of oo.pyoorb.oorb_init followed

(* -------------------------- program constants -------------------------- *)
FullCircle == 360        \* the 360. of box_bound_constraint
TwoPiFloor == 6          \* floor(2. * math.pi): x > 2*pi iff x > 6 on integers
RadPerDegMicro == 17453  \* '%f' % (numpy.pi/180.) = 0.017453, in millionths

(* ------------------------------ values --------------------------------- *)
None == [tag |-> "None"]
Absent == [tag |-> "absent"]
Some(x) == [tag |-> "Some", v |-> x]
IsNone(x) == x.tag = "None"
IsAbsent(x) == x.tag = "absent"

Range(s) == {s[i] : i \in 1..Len(s)}

\* OrderedDict as a sequence of <<key, value>> pairs
Keys(d) == [i \in 1..Len(d) |-> d[i][1]]
Has(d, k) == \E i \in 1..Len(d) : d[i][1] = k
Get(d, k) == d[CHOOSE i \in 1..Len(d) : d[i][1] = k][2]

(* ----------------------- the catalog type queried ---------------------- *)
\* class myNonsenseDB(DBObject); a column spec is the tuple as written:
\* <<logical name, physical expression[, type[, length]]>>
myNonsenseDB ==
    [objid      |-> "Nonsense",
     tableid    |-> "test",
     idColKey   |-> "NonsenseId",
     raColName  |-> "ra",
     decColName |-> "dec",
     mjdColName |-> "None",
     columns    |-> << <<"NonsenseId", "id", "int">>,
                       <<"NonsenseRaJ2000", "ra*0.017453">>,
                       <<"NonsenseDecJ2000", "dec*0.017453">>,
                       <<"NonsenseMag", "mag", "float">> >>]

\* Python truthiness of a physical expression: None and '' are false
Falsy(x) == x \in {"None", ""}

\* A faulty variant of columnMap, which keeps the physical expression as it
\* is written, None included; C15 must tell it from columnMap.
columnMap_verbatim(cls) ==
    [i \in 1..Len(cls.columns) |-> <<cls.columns[i][1], cls.columns[i][2]>>]

\* DBObjectMeta.__init__: cls.columnMap
columnMap(cls) ==
    [i \in 1..Len(cls.columns) |->
        LET el == cls.columns[i]
        IN  <<el[1], IF Falsy(el[2]) THEN el[1] ELSE el[2]>>]

\* DBObjectMeta.__init__: cls.typeMap
typeMap(cls) ==
    [i \in 1..Len(cls.columns) |->
        LET el == cls.columns[i]
        IN  <<el[1], IF Len(el) > 2 THEN SubSeq(el, 3, Len(el)) ELSE <<"float">> >>]

(* ------------------------- the class registry -------------------------- *)
\* class DBObject: every class attribute is None
DBObject == [objid |-> "None", tableid |-> "None", idColKey |-> "None"]

\* class MetadataDBObject(DBObject)
MetadataDBObject ==
    [objid      |-> "opsim3_61",
     tableid    |-> "output_opsim3_61",
     idColKey   |-> "Opsim_obshistid",
     raColName  |-> "fieldra*PI()/180.",
     decColName |-> "fielddec*PI()/180.",
     columns    |-> << <<"SIM_SEED", "expdate", "int">>,
                       <<"Unrefracted_RA", "fieldra">>,
                       <<"Unrefracted_Dec", "fielddec">>,
                       <<"Opsim_moonra", "moonra">>,
                       <<"Opsim_moondec", "moondec">>,
                       <<"Opsim_rotskypos", "rotskypos">>,
                       <<"Opsim_rottelpos", "rottelpos">>,
                       <<"Opsim_filter", "filter", "str", "1">>,
                       <<"Opsim_rawseeing", "rawseeing">>,
                       <<"Opsim_sunalt", "sunalt">>,
                       <<"Opsim_moonalt", "moonalt">>,
                       <<"Opsim_dist2moon", "dist2moon">>,
                       <<"Opsim_moonphase", "moonphase">>,
                       <<"Opsim_obshistid", "obshistid", "numpy.int64">>,
                       <<"Opsim_expmjd", "expmjd">>,
                       <<"Opsim_altitude", "altitude">>,
                       <<"Opsim_azimuth", "azimuth">> >>]

\* class StarObj(DBObject)
StarObj ==
    [objid      |-> "msstars",
     tableid    |-> "starsMSRGB_forceseek",
     idColKey   |-> "id",
     raColName  |-> "ra",
     decColName |-> "decl",
     columns    |-> << <<"id", "simobjid", "int">>,
                       <<"umag", "None">>,
                       <<"gmag", "None">>,
                       <<"rmag", "None">>,
                       <<"imag", "None">>,
                       <<"zmag", "None">>,
                       <<"raJ2000", "ra*PI()/180.">>,
                       <<"decJ2000", "decl*PI()/180.">>,
                       <<"sedFilename", "sedfilename", "unicode", "40">> >>]

\* an attribute of a class is None when the body leaves it out (the value of
\* DBObject is inherited) or assigns None
AttrIsNone(cls, a) ==
    IF a \in DOMAIN cls
    THEN IF a = "columns" THEN FALSE ELSE cls[a] = "None"
    ELSE TRUE

\* dict.__setitem__ on the registry
SetItem(reg, k, v) == [x \in (DOMAIN reg) \cup {k} |-> IF x = k THEN v ELSE reg[x]]

\* DBObjectMeta.__new__: a body without objid gets the class name as objid
DBObjectMeta_new(name, dct) ==
    IF "objid" \in DOMAIN dct
    THEN dct
    ELSE [a \in (DOMAIN dct) \cup {"objid"} |-> IF a = "objid" THEN name ELSE dct[a]]

\* A faulty variant of DBObjectMeta.__init__, which keeps the class already
\* registered under an objid; C14 must tell it from DBObjectMeta.__init__.
DBObjectMeta_init_keep_first(reg, cls) ==
    [registry |-> IF cls.objid \in DOMAIN reg THEN reg ELSE SetItem(reg, cls.objid, cls),
     warned |-> cls.objid \in DOMAIN reg,
     err |-> IF AttrIsNone(cls, "columns") THEN "TypeError" ELSE ""]

\* DBObjectMeta.__init__ for a subclass of DBObject (the registry exists):
\* warn on a duplicate objid, register the class, then build columnMap and
\* typeMap by iterating over cls.columns, which raises TypeError on None.
DBObjectMeta_init(reg, cls) ==
    [registry |-> SetItem(reg, cls.objid, cls),
     warned |-> cls.objid \in DOMAIN reg,
     err |-> IF AttrIsNone(cls, "columns") THEN "TypeError" ELSE ""]

\* the registry once dbConnection.py is imported: DBObject created it and is
\* not in it, MetadataDBObject and StarObj registered themselves
ImportedRegistry ==
    DBObjectMeta_init(DBObjectMeta_init(<<>>, MetadataDBObject).registry, StarObj).registry

\* DBObject.__init__ (MetadataDBObject.__init__ is the same without the
\* warning): the checks of objid, tableid and columns, _connect_to_engine
\* (which creates the engine), then _get_table, which looks idColKey up in
\* columnMap and reflects the table over a connection.
DBObject_init(cls, dbUp) ==
    IF AttrIsNone(cls, "objid") \/ AttrIsNone(cls, "tableid")
    THEN [err |-> "ValueError", engine |-> FALSE, connected |-> FALSE, cls |-> cls]
    ELSE IF AttrIsNone(cls, "columns")
    THEN [err |-> "ValueError", engine |-> FALSE, connected |-> FALSE, cls |-> cls]
    ELSE IF AttrIsNone(cls, "idColKey") \/ ~Has(columnMap(cls), cls.idColKey)
    THEN [err |-> "KeyError", engine |-> TRUE, connected |-> FALSE, cls |-> cls]
    ELSE IF ~dbUp
    THEN [err |-> "OperationalError", engine |-> TRUE, connected |-> TRUE, cls |-> cls]
    ELSE [err |-> "", engine |-> TRUE, connected |-> TRUE, cls |-> cls]

\* DBObject.from_objid(objid)
from_objid(reg, objid, dbUp) ==
    LET cls == IF objid \in DOMAIN reg THEN reg[objid] ELSE DBObject
    IN  DBObject_init(cls, dbUp)

(* ------------------------- the table's content ------------------------- *)
\* The fixture the table is filled from (id, ra, dec, mag): points inside and
\* outside the box 50..150 x -20..30, on both sides of mag 11, at the centre
\* of the circle (210, -60), at small RA and next to RA 360.
FixtureRa  == <<100, 210, 3, 200, 100, 355>>
FixtureDec == <<0, -60, 0, 40, 0, 0>>
FixtureMag == <<12, 12, 10, 12, 10, 12>>

FixtureRow(j) ==
    LET k == ((j - 1) % Len(FixtureRa)) + 1
    IN  [id |-> j, ra |-> FixtureRa[k], dec |-> FixtureDec[k], mag |-> FixtureMag[k]]

\* The database evaluates a physical expression on a stored row.
EvalExpr(expr, row) ==
    CASE expr = "id" -> row.id
      [] expr = "ra" -> row.ra
      [] expr = "dec" -> row.dec
      [] expr = "mag" -> row.mag
      [] expr = "ra*0.017453" -> row.ra * RadPerDegMicro
      [] expr = "dec*0.017453" -> row.dec * RadPerDegMicro

(* -------------------------- constraint builder ------------------------- *)
\* A predicate fragment stands for the text the builder formats:
\*   raForm "none":        "DEC between decLo and decHi"
\*   raForm "not between": "RA not between raLo and raHi and DEC between ..."
\*   raForm "between":     "RA between raLo and raHi and DEC between ..."
Bound(raForm, RAname, lo, hi, DECname, DECmin, DECmax) ==
    [kind |-> "bound", raForm |-> raForm, raName |-> RAname, raLo |-> lo,
     raHi |-> hi, decName |-> DECname, decLo |-> DECmin, decHi |-> DECmax]

\* DBObject.box_bound_constraint
box_bound_constraint(RAmin, RAmax, DECmin, DECmax, RAname, DECname) ==
    IF RAmin < 0 /\ RAmax > FullCircle
    THEN Bound("none", RAname, 0, 0, DECname, DECmin, DECmax)
    ELSE IF RAmin < 0 /\ RAmax <= FullCircle
    THEN Bound("not between", RAname, RAmin % FullCircle, RAmax,
               DECname, DECmin, DECmax)
    ELSE IF RAmin >= 0 /\ RAmax > TwoPiFloor
    THEN Bound("not between", RAname, RAmin, RAmax % FullCircle,
               DECname, DECmin, DECmax)
    ELSE Bound("between", RAname, RAmin, RAmax, DECname, DECmin, DECmax)

\* 1 / math.cos(math.radians(DEC)), defined at the declinations where it is
\* an integer (0 and +-60 degrees)
SecDeg(DEC) ==
    CASE DEC = 0 -> 1
      [] DEC \in {60, -60} -> 2

\* DBObject.circle_bound_constraint
circle_bound_constraint(RA, DEC, radius, RAname, DECname) ==
    LET RAmax == RA + radius * SecDeg(DEC)
        RAmin == RA - radius * SecDeg(DEC)
        DECmax == DEC + radius
        DECmin == DEC - radius
    IN  box_bound_constraint(RAmin, RAmax, DECmin, DECmax, RAname, DECname)

\* DBObject.mjd_constraint: always raises
mjd_constraint(MJD, MJDname) == [err |-> "NotImplementedError", clause |-> <<>>]

\* A faulty variant of to_SQL, which ignores the MJD silently; C8 must tell
\* it from to_SQL.
to_SQL_ignoring_mjd(self, circ_bounds, box_bounds, mjd) ==
    [err |-> "",
     clause |->
        (IF ~IsNone(box_bounds)
         THEN <<box_bound_constraint(box_bounds.v.ra_min, box_bounds.v.ra_max,
                                     box_bounds.v.dec_min, box_bounds.v.dec_max,
                                     self.raColName, self.decColName)>>
         ELSE <<>>)
        \o (IF ~IsNone(circ_bounds)
            THEN <<circle_bound_constraint(circ_bounds.v.ra, circ_bounds.v.dec,
                                           circ_bounds.v.radius,
                                           self.raColName, self.decColName)>>
            ELSE <<>>)]

\* DBObject.to_SQL: the constraint string is the concatenation of the
\* fragments, here their sequence ("" is <<>>).
to_SQL(self, circ_bounds, box_bounds, mjd) ==
    LET c1 == IF ~IsNone(box_bounds)
              THEN <<box_bound_constraint(box_bounds.v.ra_min, box_bounds.v.ra_max,
                                          box_bounds.v.dec_min, box_bounds.v.dec_max,
                                          self.raColName, self.decColName)>>
              ELSE <<>>
        c2 == IF ~IsNone(circ_bounds)
              THEN c1 \o <<circle_bound_constraint(circ_bounds.v.ra, circ_bounds.v.dec,
                                                   circ_bounds.v.radius,
                                                   self.raColName, self.decColName)>>
              ELSE c1
    IN  IF ~IsNone(mjd)
        THEN mjd_constraint(mjd.v, self.mjdColName)
        ELSE [err |-> "", clause |-> c2]

\* DBObject.filter: a query is [cols, filters]; query.filter(text) appends
\* one criterion, and the criteria are ANDed by the database layer.
filter(self, query, circ_bounds, box_bounds, mjd) ==
    LET on_clause == to_SQL(self, circ_bounds, box_bounds, mjd)
    IN  IF on_clause.err # ""
        THEN [err |-> on_clause.err, query |-> query]
        ELSE IF on_clause.clause # <<>>
        THEN [err |-> "", query |-> [query EXCEPT !.filters = Append(@, on_clause.clause)]]
        ELSE [err |-> "", query |-> query]

\* The database evaluates one fragment of a WHERE clause on a stored row.
\* SQL's BETWEEN includes both ends.
Between(x, lo, hi) == lo <= x /\ x <= hi

EvalFragment(f, row) ==
    IF f.kind = "bound"
    THEN /\ Between(EvalExpr(f.decName, row), f.decLo, f.decHi)
         /\ CASE f.raForm = "none" -> TRUE
              [] f.raForm = "between" -> Between(EvalExpr(f.raName, row), f.raLo, f.raHi)
              [] f.raForm = "not between" ->
                     ~Between(EvalExpr(f.raName, row), f.raLo, f.raHi)
    ELSE \* a free-text comparison "col > v" or "col < v"
         IF f.op = ">" THEN EvalExpr(f.col, row) > f.v ELSE EvalExpr(f.col, row) < f.v

(* ------------------------------ the query ------------------------------ *)
\* A faulty variant of _get_column_query, which drops the names it does not
\* know instead of raising; C11 must tell it from _get_column_query.
get_column_query_lenient(self, colnames) ==
    LET cm == columnMap(self)
        given == IF IsNone(colnames) THEN Keys(cm) ELSE colnames.v
        Known(k) == Has(cm, k)
        names == SelectSeq(given, Known)
        idColName == Get(cm, self.idColKey)
        pairs == [i \in 1..Len(names) |-> [label |-> names[i], expr |-> Get(cm, names[i])]]
        NotId(c) == c.expr # idColName
    IN  [err |-> "",
         query |-> [cols |-> <<[label |-> self.idColKey, expr |-> idColName]>>
                             \o SelectSeq(pairs, NotId),
                    filters |-> <<>>]]

\* A faulty variant of _get_column_query, which projects the columns in the
\* order requested without moving the primary key to the front; C12 must tell
\* it from _get_column_query.
get_column_query_unordered(self, colnames) ==
    LET cm == columnMap(self)
        names == IF IsNone(colnames) THEN Keys(cm) ELSE colnames.v
    IN  IF \E i \in 1..Len(names) : ~Has(cm, names[i])
        THEN [err |-> "ValueError", query |-> [cols |-> <<>>, filters |-> <<>>]]
        ELSE [err |-> "",
              query |-> [cols |-> [i \in 1..Len(names) |->
                                      [label |-> names[i], expr |-> Get(cm, names[i])]],
                         filters |-> <<>>]]

\* DBObject._get_column_query.  "val is idColName" is taken as equality of
\* the two expressions (equal string constants of one module are one object).
get_column_query(self, colnames) ==
    LET cm == columnMap(self)
        names == IF IsNone(colnames) THEN Keys(cm) ELSE colnames.v
    IN  IF \E i \in 1..Len(names) : ~Has(cm, names[i])
        THEN [err |-> "ValueError", query |-> [cols |-> <<>>, filters |-> <<>>]]
        ELSE
        LET vals == [i \in 1..Len(names) |-> Get(cm, names[i])]
            idColName == Get(cm, self.idColKey)
            idLabel == IF idColName \in Range(vals) THEN self.idColKey ELSE idColName
            pairs == [i \in 1..Len(names) |-> [label |-> names[i], expr |-> vals[i]]]
            NotId(c) == c.expr # idColName
        IN  [err |-> "",
             query |-> [cols |-> <<[label |-> idLabel, expr |-> idColName]>>
                                 \o SelectSeq(pairs, NotId),
                        filters |-> <<>>]]

\* session.execute(query) followed by the fetch of every row: the database
\* keeps the stored rows that satisfy every criterion, in cursor order, and
\* projects each on the query's labelled columns.  A criterion that is the
\* concatenation of several fragments (no AND between them) is not SQL.
session_execute(query, tbl) ==
    IF \E i \in 1..Len(query.filters) : Len(query.filters[i]) # 1
    THEN [err |-> "OperationalError", rows |-> <<>>]
    ELSE
    LET Keep(row) == \A i \in 1..Len(query.filters) :
                         EvalFragment(query.filters[i][1], row)
        kept == SelectSeq(tbl, Keep)
        Project(row) == [c \in 1..Len(query.cols) |->
                            <<query.cols[c].label, EvalExpr(query.cols[c].expr, row)>>]
    IN  [err |-> "", rows |-> [i \in 1..Len(kept) |-> Project(kept[i])]]

\* DBObject._postprocess_results (with _final_pass, the identity): a
\* structured array with one field per key of typeMap, filled from each
\* result row by every key of columnMap; a result row has no value under a
\* label the query did not project.
postprocess_results(self, results) ==
    LET cm == columnMap(self)
        dtype == Keys(typeMap(self))
    IN  IF \E i \in 1..Len(results) : \E k \in 1..Len(cm) : ~Has(results[i], cm[k][1])
        THEN [err |-> "NoSuchColumnError", dtype |-> <<>>, rows |-> <<>>]
        ELSE [err |-> "", dtype |-> dtype,
              rows |-> [i \in 1..Len(results) |->
                           [k \in 1..Len(cm) |-> <<cm[k][1], Get(results[i], cm[k][1])>>]]]

(* --------------------------- ChunkIterator ----------------------------- *)
\* The outcome of a query_columns call.
Outcome(kind, err, dtype, rows, executes) ==
    [kind |-> kind, err |-> err, dtype |-> dtype, rows |-> rows,
     executes |-> executes, cursor |-> <<>>, chunk_size |-> 0]

Raised(err, executes) == Outcome("error", err, <<>>, <<>>, executes)

\* ChunkIterator.__init__(self, exec_query, chunk_size): its first statement
\* reads the name dbobj, which is neither a parameter nor a name of the
\* module, so the constructor raises NameError before it executes a query.
ChunkIterator_init(exec_query, chunk_size) == Raised("NameError", 0)

\* ChunkIterator.next on an iterator [dbobj, cursor, chunk_size]:
\* fetchmany(chunk_size) takes the next chunk_size rows of the cursor.
ChunkIterator_next(it) ==
    LET n == IF Len(it.cursor) < it.chunk_size THEN Len(it.cursor) ELSE it.chunk_size
        chunk == SubSeq(it.cursor, 1, n)
    IN  IF Len(chunk) = 0
        THEN [err |-> "StopIteration", batch |-> <<>>, it |-> it]
        ELSE [err |-> postprocess_results(it.dbobj, chunk).err,
              batch |-> postprocess_results(it.dbobj, chunk).rows,
              it |-> [it EXCEPT !.cursor = SubSeq(@, n + 1, Len(@))]]

\* DBObject.query_columns
query_columns(self, tbl, colnames, chunk_size, obs_metadata, constraint) ==
    LET cq == get_column_query(self, colnames)
    IN  IF cq.err # "" THEN Raised(cq.err, 0) ELSE
    LET f == IF IsNone(obs_metadata)
             THEN [err |-> "", query |-> cq.query]
             ELSE IF IsAbsent(obs_metadata.v.circ_bounds)
             THEN [err |-> "AttributeError", query |-> cq.query]
             ELSE filter(self, cq.query, obs_metadata.v.circ_bounds,
                         obs_metadata.v.box_bounds, obs_metadata.v.mjd)
    IN  IF f.err # "" THEN Raised(f.err, 0) ELSE
    LET query == IF IsNone(constraint)
                 THEN f.query
                 ELSE [f.query EXCEPT !.filters = Append(@, <<constraint.v>>)]
    IN  IF IsNone(chunk_size)
        THEN LET exec_query == session_execute(query, tbl)
                 res == postprocess_results(self, exec_query.rows)
             IN  IF exec_query.err # "" THEN Raised(exec_query.err, 1)
                 ELSE IF res.err # "" THEN Raised(res.err, 1)
                 ELSE Outcome("array", "", res.dtype, res.rows, 1)
        ELSE ChunkIterator_init(self, chunk_size.v)

(* ------------------------- ObservationMetaData ------------------------- *)
NoInstance ==
    [inst |-> FALSE, osm |-> FALSE,
     circ_bounds |-> Absent, box_bounds |-> Absent, mjd |-> Absent]

\* A faulty variant of __init__, without the test for both bounds; C10 must
\* tell it from __init__.
ObservationMetaData_init_unchecked(opsimid, circ_bounds, box_bounds, mjd, dbUp) ==
    IF ~IsNone(opsimid)
    THEN IF dbUp
         THEN [err |-> "", self |-> [NoInstance EXCEPT !.inst = TRUE, !.osm = TRUE]]
         ELSE [err |-> "OperationalError", self |-> NoInstance]
    ELSE [err |-> "",
          self |-> [inst |-> TRUE, osm |-> FALSE, circ_bounds |-> circ_bounds,
                    box_bounds |-> box_bounds, mjd |-> mjd]]

\* ObservationMetaData.__init__.  With an opsimid it builds the opsim
\* database object, which connects to the database at DEFAULT_ADDRESS
\* (dbUp: whether that connection succeeds) and assigns no bound attribute.
ObservationMetaData_init(opsimid, circ_bounds, box_bounds, mjd, dbUp) ==
    IF ~IsNone(opsimid)
    THEN IF dbUp
         THEN [err |-> "", self |-> [NoInstance EXCEPT !.inst = TRUE, !.osm = TRUE]]
         ELSE [err |-> "OperationalError", self |-> NoInstance]
    ELSE IF ~IsNone(circ_bounds) /\ ~IsNone(box_bounds)
         THEN [err |-> "ValueError", self |-> NoInstance]
         ELSE [err |-> "",
               self |-> [inst |-> TRUE, osm |-> FALSE, circ_bounds |-> circ_bounds,
                         box_bounds |-> box_bounds, mjd |-> mjd]]

\* ObservationMetaData.from_obshistid.  result is what the opsim query for
\* the obshistid returned: a sequence of pointings, each already in degrees
\* (math.degrees of the stored radians).  ValueErr is not a name of the
\* module, so the last branch raises NameError.
from_obshistid(self, result, radiusDeg, makeCircBounds, makeBoxBounds) ==
    IF ~self.osm
    THEN [err |-> "AttributeError", self |-> self]
    ELSE IF makeCircBounds
    THEN IF Len(result) = 0
         THEN [err |-> "IndexError", self |-> self]
         ELSE [err |-> "",
               self |-> [self EXCEPT
                           !.circ_bounds = Some([ra |-> result[1].ra,
                                                 dec |-> result[1].dec,
                                                 radius |-> radiusDeg]),
                           !.mjd = None,
                           !.box_bounds = None]]
    ELSE IF makeBoxBounds
    THEN [err |-> "NotImplementedError", self |-> self]
    ELSE [err |-> "NameError", self |-> self]

(* ------------------------------- inputs -------------------------------- *)
CircChoices ==
    {[ra |-> 210, dec |-> -60, radius |-> 20], [ra |-> 3, dec |-> 0, radius |-> 2]}

BoxChoices ==
    {[ra_min |-> 50,  ra_max |-> 150, dec_min |-> -20, dec_max |-> 30],
     [ra_min |-> 1,   ra_max |-> 5,   dec_min |-> -20, dec_max |-> 30],
     [ra_min |-> -10, ra_max |-> 20,  dec_min |-> -20, dec_max |-> 30],
     [ra_min |-> 350, ra_max |-> 370, dec_min |-> -20, dec_max |-> 30],
     [ra_min |-> -10, ra_max |-> 370, dec_min |-> -20, dec_max |-> 30]}

Opt(S) == {None} \cup {Some(x) : x \in S}

AllColumns == <<"NonsenseId", "NonsenseRaJ2000", "NonsenseDecJ2000", "NonsenseMag">>

ColnameChoices ==
    {None, Some(AllColumns),
     Some(<<"NonsenseId", "NonsenseRaJ2000", "NonsenseMag">>),
     Some(<<"NonsenseMag">>),
     Some(<<"NonsenseMag", "NonsenseId">>),
     Some(<<"NonsenseMag", "NonsenseMag">>),
     Some(<<"NonsenseId", "NoSuchColumn">>)}

ConstraintChoices == Opt({[kind |-> "text", col |-> "mag", op |-> ">", v |-> 11]})

\* the tables: the first n fixture rows, n up to MaxRows
TableChoices == {[i \in 1..n |-> FixtureRow(i)] : n \in 0..MaxRows}

(* --------------------------- moving objects ---------------------------- *)
\* MovingObject.mjdTaiStr: the epoch formatted to the digits the string keeps
mjdTaiStr(mjdTai) == mjdTai \div 2

\* the Ephemerides mapping: keys, d[k] = v, and d[k], which raises KeyError
\* when k is not a key
DictKeys(d) == {e.key : e \in d}

DictSetItem(d, k, v) == {e \in d : e.key # k} \cup {[key |-> k, val |-> v]}

\* mo.Ephemeris(mjdTai, ra, dec, ...): no filter magnitude is stored yet
Ephemeris(mjdTai, ra, dec) ==
    [mjdTai |-> mjdTai, ra |-> ra, dec |-> dec, magFilter |-> None]

\* Ephemeris.setmagFilter(filtmag)
setmagFilter(ephemeris, filtmag) == [ephemeris EXCEPT !.magFilter = Some(filtmag)]

\* Ephemeris.getmagFilter(): the access fails when no magnitude was computed
getmagFilter(ephemeris) ==
    IF IsNone(ephemeris.magFilter)
    THEN [err |-> "AttributeError", val |-> 0]
    ELSE [err |-> "", val |-> ephemeris.magFilter.v]

\* the filter magnitude computed for an object, in tenths of a magnitude
FilterMag(obj) ==
    CASE obj % 3 = 1 -> 230
      [] obj % 3 = 2 -> 240
      [] obj % 3 = 0 -> 200

DictGetItem(d, k) ==
    IF k \in DictKeys(d)
    THEN [err |-> "", val |-> (CHOOSE e \in d : e.key = k).val]
    ELSE [err |-> "KeyError", val |-> Ephemeris(0, 0, 0)]

\* the row ephems[i][j] that oo.pyoorb.oorb_ephemeris computes for the orbit
\* of an object at an epoch: a function of the two; the orbits used here keep
\* the objects on the equator, at RA 10 or 200
oorb_ephemeris(obj, mjdTai) ==
    [ra |-> IF (obj + mjdTai) % 2 = 0 THEN 10 ELSE 200, dec |-> 0]

\* MovingObject.calcEphemeris(mjdTai): the per-object computation, stored
\* under the epoch's key
calcEphemeris(d, obj, mjdTai) ==
    LET eph == oorb_ephemeris(obj, mjdTai)
    IN  DictSetItem(d, mjdTaiStr(mjdTai), Ephemeris(mjdTai, eph.ra, eph.dec))

\* Ephemeris.isInFieldofView(ra_fov, dec_fov, radius_fov): the angular
\* separation is below the radius; on the equator the separation is the
\* difference of RA, the short way round
isInFieldofView(ephemeris, ra_fov, dec_fov, radius_fov) ==
    LET d == IF ephemeris.ra >= ra_fov THEN ephemeris.ra - ra_fov
             ELSE ra_fov - ephemeris.ra
        sep == IF d > FullCircle - d THEN FullCircle - d ELSE d
    IN  ephemeris.dec = 0 /\ dec_fov = 0 /\ sep < radius_fov

\* MovingObjectList.__init__(objectList) with a list: setList keeps the list
MovingObjectList_init(objectList) == objectList

\* the assignment loop of generateEphemeridesForAllObjects for one object:
\* epochs j, j+1, ... of mjdTaiList in turn
RECURSIVE StoreEphemerides(_, _, _, _)
StoreEphemerides(d, obj, mjdTaiList, j) ==
    IF j > Len(mjdTaiList)
    THEN d
    ELSE LET eph == oorb_ephemeris(obj, mjdTaiList[j])
         IN  StoreEphemerides(
                 DictSetItem(d, mjdTaiStr(mjdTaiList[j]),
                             Ephemeris(mjdTaiList[j], eph.ra, eph.dec)),
                 obj, mjdTaiList, j + 1)

\* the calls generateEphemeridesForAllObjects makes to pyoorb: oorb_init,
\* then oorb_ephemeris with orbitsArray (one row per object of the list, here
\* the object of the row) and ephem_dates (one row [mjdTai, 4.0] per epoch)
OorbCalls(mObjects, mjdTaiList) ==
    <<[f |-> "oorb_init", in_orbits |-> <<>>, in_date_ephems |-> <<>>],
      [f |-> "oorb_ephemeris",
       in_orbits |-> [i \in 1..Len(mObjects) |-> mObjects[i]],
       in_date_ephems |-> [i \in 1..Len(mjdTaiList) |-> <<mjdTaiList[i], 4>>]]>>

\* A faulty variant of generateEphemeridesForAllObjects, which stores the
\* returned rows before it looks at the status; C17 must tell it from
\* generateEphemeridesForAllObjects.
generateEphemerides_store_first(mObjects, ephs, mjdTaiArg, oorbErr) ==
    IF mObjects = <<>>
    THEN [err |-> "IndexError", Ephemerides |-> ephs, oorb |-> <<>>]
    ELSE LET mjdTaiList == IF mjdTaiArg.tag = "list" THEN mjdTaiArg.v ELSE <<mjdTaiArg.v>>
         IN  [err |-> IF oorbErr # 0 THEN "Exception" ELSE "",
              oorb |-> OorbCalls(mObjects, mjdTaiList),
              Ephemerides |->
                  [o \in DOMAIN ephs |->
                      IF o \in Range(mObjects)
                      THEN StoreEphemerides(ephs[o], o, mjdTaiList, 1)
                      ELSE ephs[o]]]

\* A faulty variant of generateEphemeridesForAllObjects, which starts each
\* object's mapping afresh; C18 must tell it from
\* generateEphemeridesForAllObjects.
generateEphemerides_afresh(mObjects, ephs, mjdTaiArg, oorbErr) ==
    IF mObjects = <<>>
    THEN [err |-> "IndexError", Ephemerides |-> ephs, oorb |-> <<>>]
    ELSE LET mjdTaiList == IF mjdTaiArg.tag = "list" THEN mjdTaiArg.v ELSE <<mjdTaiArg.v>>
         IN  IF oorbErr # 0
             THEN [err |-> "Exception", Ephemerides |-> ephs,
                   oorb |-> OorbCalls(mObjects, mjdTaiList)]
             ELSE [err |-> "",
                   oorb |-> OorbCalls(mObjects, mjdTaiList),
                   Ephemerides |->
                       [o \in DOMAIN ephs |->
                           IF o \in Range(mObjects)
                           THEN StoreEphemerides({}, o, mjdTaiList, 1)
                           ELSE ephs[o]]]

\* MovingObjectList.generateEphemeridesForAllObjects(mjdTaiList) on the list
\* mObjects: self._mObjects[0] raises IndexError on an empty list; an epoch
\* that is not a list is wrapped in one; oorb_init and then oorb_ephemeris
\* are called, once each, and a status other than 0 raises before anything
\* is stored.
generateEphemeridesForAllObjects(mObjects, ephs, mjdTaiArg, oorbErr) ==
    IF mObjects = <<>>
    THEN [err |-> "IndexError", Ephemerides |-> ephs, oorb |-> <<>>]
    ELSE LET mjdTaiList == IF mjdTaiArg.tag = "list" THEN mjdTaiArg.v ELSE <<mjdTaiArg.v>>
         IN  IF oorbErr # 0
             THEN [err |-> "Exception", Ephemerides |-> ephs,
                   oorb |-> OorbCalls(mObjects, mjdTaiList)]
             ELSE [err |-> "",
                   oorb |-> OorbCalls(mObjects, mjdTaiList),
                   Ephemerides |->
                       [o \in DOMAIN ephs |->
                           IF o \in Range(mObjects)
                           THEN StoreEphemerides(ephs[o], o, mjdTaiList, 1)
                           ELSE ephs[o]]]

\* the loop of getMovingObjectsInFieldofView from element i of mObjects on:
\* the lookup in the try block, the handler of AttributeError (the only
\* exception it catches), the second lookup and the test
RECURSIVE FieldofViewLoop(_, _, _, _, _, _)
FieldofViewLoop(mObjects, i, ephs, outputList, fov, mjdTai) ==
    IF i > Len(mObjects)
    THEN [err |-> "", Ephemerides |-> ephs, outputList |-> outputList]
    ELSE LET movingobj == mObjects[i]
             key == mjdTaiStr(mjdTai)
             tried == DictGetItem(ephs[movingobj], key)
             ephs1 == IF tried.err = "AttributeError"
                      THEN [ephs EXCEPT ![movingobj] = calcEphemeris(@, movingobj, mjdTai)]
                      ELSE ephs
             again == DictGetItem(ephs1[movingobj], key)
         IN  IF tried.err \notin {"", "AttributeError"}
             THEN [err |-> tried.err, Ephemerides |-> ephs, outputList |-> outputList]
             ELSE IF again.err # ""
             THEN [err |-> again.err, Ephemerides |-> ephs1, outputList |-> outputList]
             ELSE FieldofViewLoop(
                      mObjects, i + 1, ephs1,
                      IF isInFieldofView(again.val, fov.ra, fov.dec, fov.radius)
                      THEN Append(outputList, movingobj) ELSE outputList,
                      fov, mjdTai)

\* A faulty variant of getMovingObjectsInFieldofView, which returns a
\* MovingObjectList on the list it was called on, the objects in the field
\* of view appended to it; C19 must tell it from
\* getMovingObjectsInFieldofView.
getMovingObjectsInFieldofView_in_place(heap, self, ephs, fov, mjdTai) ==
    LET r == FieldofViewLoop(heap[self], 1, ephs, <<>>, fov, mjdTai)
    IN  IF r.err # ""
        THEN [err |-> r.err, Ephemerides |-> r.Ephemerides, lists |-> heap, ref |-> 0]
        ELSE [err |-> "", Ephemerides |-> r.Ephemerides,
              lists |-> [heap EXCEPT ![self] = @ \o r.outputList],
              ref |-> self]

\* MovingObjectList.getMovingObjectsInFieldofView(ra_fov, dec_fov,
\* radius_fov, mjdTai) on the list heap[self]: outputList is a new list, and
\* the MovingObjectList returned holds it.
getMovingObjectsInFieldofView(heap, self, ephs, fov, mjdTai) ==
    LET r == FieldofViewLoop(heap[self], 1, ephs, <<>>, fov, mjdTai)
        new == 3 - self
    IN  IF r.err # ""
        THEN [err |-> r.err, Ephemerides |-> r.Ephemerides, lists |-> heap, ref |-> 0]
        ELSE [err |-> "", Ephemerides |-> r.Ephemerides,
              lists |-> [heap EXCEPT ![new] = MovingObjectList_init(r.outputList)],
              ref |-> new]

\* the longest list the memory of the process holds
MaxLen == 2 * MaxObjs

\* the loop of addMovingObjectList from position i of heap[other] on: the
\* iteration reads the list as it is at each step, so it goes on over what
\* the loop itself appended when heap[self] is the list iterated; an append
\* beyond the memory raises MemoryError
RECURSIVE AppendLoop(_, _, _, _)
AppendLoop(heap, self, other, i) ==
    IF i > Len(heap[other])
    THEN [err |-> "", lists |-> heap]
    ELSE IF Len(heap[self]) >= MaxLen
    THEN [err |-> "MemoryError", lists |-> heap]
    ELSE AppendLoop([heap EXCEPT ![self] = Append(@, heap[other][i])],
                    self, other, i + 1)

\* MovingObjectList.addMovingObjectList(new_mObjList): self and other are
\* the slots of the lists the two MovingObjectLists hold in _mObjects, the
\* same slot when new_mObjList is the receiver or was built on its list
addMovingObjectList(heap, self, other) == AppendLoop(heap, self, other, 1)

\* magSNRcutoff = fiveSigmaLimitingMag - 2.5 * log10(SNRcutoff / 5.0), in
\* tenths of a magnitude, for the cutoffs 5 and 50
magSNRcutoff(fiveSigmaLimitingMag, SNRcutoff) ==
    fiveSigmaLimitingMag - 25 * (CASE SNRcutoff = 5 -> 0 [] SNRcutoff = 50 -> 1)

\* the loop of cutAllSNR from element i of mObjects on
RECURSIVE SNRLoop(_, _, _, _, _, _)
SNRLoop(mObjects, i, ephs, outputList, cutoff, key) ==
    IF i > Len(mObjects)
    THEN [err |-> "", outputList |-> outputList]
    ELSE LET movingobj == mObjects[i]
             look == DictGetItem(ephs[movingobj], key)
             mag == getmagFilter(look.val)
         IN  IF look.err # ""
             THEN [err |-> look.err, outputList |-> outputList]
             ELSE IF mag.err # ""
             THEN [err |-> mag.err, outputList |-> outputList]
             ELSE SNRLoop(mObjects, i + 1, ephs,
                          IF mag.val < cutoff
                          THEN Append(outputList, movingobj) ELSE outputList,
                          cutoff, key)

\* A faulty variant of cutAllSNR, which passes over an object without
\* ephemeris or magnitude instead of failing; C21 must tell it from cutAllSNR.
cutAllSNR_skip_missing(heap, self, ephs, fiveSigmaLimitingMag, SNRcutoff, mjdTai) ==
    LET key == mjdTaiStr(mjdTai)
        cutoff == magSNRcutoff(fiveSigmaLimitingMag, SNRcutoff)
        Bright(o) == /\ DictGetItem(ephs[o], key).err = ""
                     /\ getmagFilter(DictGetItem(ephs[o], key).val).err = ""
                     /\ getmagFilter(DictGetItem(ephs[o], key).val).val < cutoff
    IN  IF heap[self] = <<>>
        THEN [err |-> "IndexError", lists |-> heap, ref |-> 0]
        ELSE [err |-> "",
              lists |-> [heap EXCEPT ![3 - self] = SelectSeq(heap[self], Bright)],
              ref |-> 3 - self]

\* MovingObjectList.cutAllSNR(fiveSigmaLimitingMag, SNRcutoff, mjdTai) on the
\* list heap[self]: the two checks on self._mObjects[0], whose handlers
\* catch AttributeError only, then the loop; outputList is a new list.
cutAllSNR(heap, self, ephs, fiveSigmaLimitingMag, SNRcutoff, mjdTai) ==
    LET mObjects == heap[self]
        key == mjdTaiStr(mjdTai)
        cutoff == magSNRcutoff(fiveSigmaLimitingMag, SNRcutoff)
        new == 3 - self
        Raise(err) == [err |-> err, lists |-> heap, ref |-> 0]
    IN  IF mObjects = <<>>
        THEN Raise("IndexError")
        ELSE LET first == DictGetItem(ephs[mObjects[1]], key)
                 mag == getmagFilter(first.val)
                 r == SNRLoop(mObjects, 1, ephs, <<>>, cutoff, key)
             IN  IF first.err # ""
                 THEN Raise(IF first.err = "AttributeError" THEN "Exception" ELSE first.err)
                 ELSE IF mag.err # ""
                 THEN Raise(IF mag.err = "AttributeError" THEN "Exception" ELSE mag.err)
                 ELSE IF r.err # ""
                 THEN Raise(r.err)
                 ELSE [err |-> "",
                       lists |-> [heap EXCEPT ![new] = MovingObjectList_init(r.outputList)],
                       ref |-> new]

NoMoCall ==
    [op |-> "none", err |-> "", mjdTai |-> [tag |-> "float", v |-> 0], oorbErr |-> 0,
     fov |-> [ra |-> 0, dec |-> 0, radius |-> 0],
     fiveSigmaLimitingMag |-> 0, SNRcutoff |-> 0, calls |-> <<>>,
     self |-> 0, other |-> 0]

(* ------------------------------- actions ------------------------------- *)
NoCall ==
    [called |-> FALSE, colnames |-> None, chunk_size |-> None,
     obs_metadata |-> None, constraint |-> None, res |-> Raised("", 0)]

NoMdCall ==
    [op |-> "none", err |-> "", opsimid |-> FALSE, both |-> FALSE,
     makeCircBounds |-> FALSE, makeBoxBounds |-> FALSE]

NoRegCall ==
    [op |-> "none", cls |-> DBObject, objid |-> "", dbUp |-> TRUE, warned |-> FALSE,
     res |-> [err |-> "", engine |-> FALSE, connected |-> FALSE, cls |-> DBObject]]

Init ==
    /\ table \in TableChoices
    /\ md = NoInstance
    /\ mdLast = NoMdCall
    /\ q = NoCall
    /\ registry = ImportedRegistry
    /\ regLast = NoRegCall
    /\ Ephemerides = [o \in 1..MaxObjs |-> {}]
    /\ lists = <<MovingObjectList_init(<<>>), <<>>>>
    /\ fovList = 0
    /\ oorbLog = <<>>
    /\ moLast = NoMoCall

\* md = ObservationMetaData(opsimid, circ_bounds, box_bounds, mjd): a raise
\* leaves the program with the instance it had.
NewObservationMetaData ==
    \E opsimid \in Opt({"opsim3_61"}), circ_bounds \in Opt(CircChoices),
       box_bounds \in Opt(BoxChoices), mjd \in Opt({52000}) :
      \E dbUp \in (IF IsNone(opsimid) THEN {TRUE} ELSE BOOLEAN) :
        LET r == ObservationMetaData_init(opsimid, circ_bounds, box_bounds, mjd, dbUp)
        IN  /\ md' = IF r.err = "" THEN r.self ELSE md
            /\ mdLast' = [op |-> "__init__", err |-> r.err,
                          opsimid |-> ~IsNone(opsimid),
                          both |-> ~IsNone(circ_bounds) /\ ~IsNone(box_bounds),
                          makeCircBounds |-> FALSE, makeBoxBounds |-> FALSE]
            /\ q' = NoCall
            /\ UNCHANGED <<table, regVars, moVars>>

\* md.from_obshistid(obshistid, radiusDeg, makeCircBounds, makeBoxBounds)
FromObshistid ==
    /\ md.inst
    /\ \E c \in CircChoices, found \in BOOLEAN,
          makeCircBounds \in BOOLEAN, makeBoxBounds \in BOOLEAN :
        LET result == IF found THEN <<[ra |-> c.ra, dec |-> c.dec]>> ELSE <<>>
            r == from_obshistid(md, result, c.radius, makeCircBounds, makeBoxBounds)
        IN  /\ md' = r.self
            /\ mdLast' = [op |-> "from_obshistid", err |-> r.err,
                          opsimid |-> FALSE, both |-> FALSE,
                          makeCircBounds |-> makeCircBounds,
                          makeBoxBounds |-> makeBoxBounds]
            /\ q' = NoCall
            /\ UNCHANGED <<table, regVars, moVars>>

\* myNonsense.query_columns(colnames, chunk_size, obs_metadata, constraint),
\* obs_metadata being None or the instance the program holds
QueryColumns ==
    \E colnames \in ColnameChoices, chunk_size \in Opt(1..MaxChunk),
       constraint \in ConstraintChoices,
       obs_metadata \in {None} \cup (IF md.inst THEN {Some(md)} ELSE {}) :
        /\ q' = [called |-> TRUE, colnames |-> colnames, chunk_size |-> chunk_size,
                 obs_metadata |-> obs_metadata, constraint |-> constraint,
                 res |-> query_columns(myNonsenseDB, table, colnames, chunk_size,
                                       obs_metadata, constraint)]
        /\ mdLast' = NoMdCall
        /\ UNCHANGED <<table, md, regVars, moVars>>

Next == NewObservationMetaData \/ FromObshistid \/ QueryColumns

Spec == Init /\ [][Next]_vars

(* ----------------------- actions on the registry ----------------------- *)
\* the class statements executed: myNonsenseDB of the tests, a second class
\* under its objid, a class whose body has no objid, and classes lacking
\* tableid, idColKey or columns
ClassChoices ==
    {[name |-> "myNonsenseDB", dct |-> myNonsenseDB],
     [name |-> "otherNonsenseDB", dct |-> [myNonsenseDB EXCEPT !.tableid = "test2"]],
     [name |-> "Anon",
      dct |-> [tableid |-> "test", idColKey |-> "NonsenseId",
               columns |-> myNonsenseDB.columns]],
     [name |-> "NoTable",
      dct |-> [objid |-> "NoTable", idColKey |-> "NonsenseId",
               columns |-> myNonsenseDB.columns]],
     [name |-> "NoIdCol",
      dct |-> [objid |-> "NoIdCol", tableid |-> "test",
               columns |-> myNonsenseDB.columns]],
     [name |-> "NoColumns",
      dct |-> [objid |-> "NoColumns", tableid |-> "test", idColKey |-> "NonsenseId"]]}

ObjidChoices ==
    {"opsim3_61", "msstars", "Nonsense", "Anon", "NoTable", "NoIdCol", "NoColumns",
     "unregistered"}

\* class name(DBObject): dct
DefineClass ==
    \E c \in ClassChoices :
        LET cls == DBObjectMeta_new(c.name, c.dct)
            r == DBObjectMeta_init(registry, cls)
        IN  /\ registry' = r.registry
            /\ regLast' = [NoRegCall EXCEPT !.op = "define", !.cls = cls,
                             !.warned = r.warned, !.res.err = r.err]
            /\ UNCHANGED <<dbVars, moVars>>

\* DBObject.from_objid(objid)
FromObjid ==
    \E objid \in ObjidChoices, dbUp \in BOOLEAN :
        /\ regLast' = [NoRegCall EXCEPT !.op = "from_objid", !.objid = objid,
                         !.dbUp = dbUp, !.res = from_objid(registry, objid, dbUp)]
        /\ UNCHANGED <<registry, dbVars, moVars>>

InitRegistry == Init /\ table = <<>>

NextRegistry == DefineClass \/ FromObjid

SpecRegistry == InitRegistry /\ [][NextRegistry]_vars

(* --------------------- actions on moving objects ----------------------- *)
Epochs == {0, 1, 2}

\* mjdTaiList: one epoch, or a list of epochs
MjdTaiChoices ==
    {[tag |-> "float", v |-> e] : e \in Epochs}
    \cup {[tag |-> "list", v |-> l] : l \in {<<0, 1>>, <<0, 2>>, <<2>>}}

FovChoices ==
    {[ra |-> 355, dec |-> 0, radius |-> 20], [ra |-> 200, dec |-> 0, radius |-> 5]}

\* mol.generateEphemeridesForAllObjects(mjdTaiList)
GenerateEphemerides ==
    /\ Cardinality({i \in 1..Len(oorbLog) : oorbLog[i] = "oorb_init"}) < MaxInits
    /\ \E mjdTaiArg \in MjdTaiChoices, oorbErr \in {0, 1} :
        LET r == generateEphemeridesForAllObjects(lists[1], Ephemerides, mjdTaiArg, oorbErr)
            IsBatch(c) == c.f = "oorb_ephemeris"
        IN  /\ Ephemerides' = r.Ephemerides
            /\ oorbLog' = oorbLog \o [i \in 1..Len(r.oorb) |-> r.oorb[i].f]
            /\ moLast' = [NoMoCall EXCEPT !.op = "generate", !.err = r.err,
                            !.mjdTai = mjdTaiArg, !.oorbErr = oorbErr,
                            !.calls = SelectSeq(r.oorb, IsBatch)]
            /\ UNCHANGED <<lists, fovList, dbVars, regVars>>

\* result = mol.getMovingObjectsInFieldofView(ra_fov, dec_fov, radius_fov,
\* mjdTai): a raise leaves the program with the result it had
GetMovingObjectsInFieldofView ==
    \E fov \in FovChoices, mjdTai \in Epochs :
        LET r == getMovingObjectsInFieldofView(lists, 1, Ephemerides, fov, mjdTai)
        IN  /\ Ephemerides' = r.Ephemerides
            /\ lists' = r.lists
            /\ fovList' = IF r.err = "" THEN r.ref ELSE fovList
            /\ moLast' = [NoMoCall EXCEPT !.op = "getMovingObjectsInFieldofView",
                            !.err = r.err, !.fov = fov,
                            !.mjdTai = [tag |-> "float", v |-> mjdTai]]
            /\ UNCHANGED <<oorbLog, dbVars, regVars>>

\* the slots of the heap that hold a list
ListSlots == {1} \cup (IF fovList = 0 THEN {} ELSE {fovList})

\* a.addMovingObjectList(b), a and b each being mol, the MovingObjectList
\* returned last, or a MovingObjectList built on the list of one of them
AddMovingObjectList ==
    \E self \in ListSlots, other \in ListSlots :
        /\ self # other => Len(lists[self]) + Len(lists[other]) <= MaxLen
        /\ LET r == addMovingObjectList(lists, self, other)
           IN  /\ lists' = r.lists
               /\ moLast' = [NoMoCall EXCEPT !.op = "addMovingObjectList",
                               !.err = r.err, !.self = self, !.other = other]
        /\ UNCHANGED <<Ephemerides, fovList, oorbLog, dbVars, regVars>>

\* mol = MovingObjectList([MovingObject 1, ..., MovingObject n])
InitMovingObjects ==
    /\ table = <<>>
    /\ md = NoInstance
    /\ mdLast = NoMdCall
    /\ q = NoCall
    /\ registry = ImportedRegistry
    /\ regLast = NoRegCall
    /\ Ephemerides = [o \in 1..MaxObjs |-> {}]
    /\ \E n \in 0..MaxObjs : lists = <<MovingObjectList_init([i \in 1..n |-> i]), <<>>>>
    /\ fovList = 0
    /\ oorbLog = <<>>
    /\ moLast = NoMoCall

NextMovingObjects ==
    GenerateEphemerides \/ GetMovingObjectsInFieldofView \/ AddMovingObjectList

SpecMovingObjects == InitMovingObjects /\ [][NextMovingObjects]_vars

(* ------------------- actions on filter magnitudes ---------------------- *)
\* obj.Ephemerides[key].setmagFilter(filtmag), as the magnitude calculation
\* does for an ephemeris that exists
SetMagFilter ==
    \E o \in Range(lists[1]) : \E e \in Ephemerides[o] :
        /\ Ephemerides' = [Ephemerides EXCEPT
                             ![o] = DictSetItem(@, e.key, setmagFilter(e.val, FilterMag(o)))]
        /\ moLast' = [NoMoCall EXCEPT !.op = "setmagFilter"]
        /\ UNCHANGED <<lists, fovList, oorbLog, dbVars, regVars>>

\* result = mol.cutAllSNR(fiveSigmaLimitingMag, SNRcutoff, mjdTai): a raise
\* leaves the program with the result it had
CutAllSNR ==
    \E SNRcutoff \in {5, 50}, mjdTai \in Epochs :
        LET r == cutAllSNR(lists, 1, Ephemerides, 240, SNRcutoff, mjdTai)
        IN  /\ lists' = r.lists
            /\ fovList' = IF r.err = "" THEN r.ref ELSE fovList
            /\ moLast' = [NoMoCall EXCEPT !.op = "cutAllSNR", !.err = r.err,
                            !.fiveSigmaLimitingMag = 240, !.SNRcutoff = SNRcutoff,
                            !.mjdTai = [tag |-> "float", v |-> mjdTai]]
            /\ UNCHANGED <<Ephemerides, oorbLog, dbVars, regVars>>

NextSNR == GenerateEphemerides \/ SetMagFilter \/ CutAllSNR

SpecSNR == InitMovingObjects /\ [][NextSNR]_vars

(* ======================= the claims, C1 to C10 ========================= *)
\* helpers of the formulas
IsSome(x) == x.tag = "Some"

\* the iterator a chunked call returned, as ChunkIterator.next reads it
IteratorOf(res) ==
    [dbobj |-> myNonsenseDB, cursor |-> res.cursor, chunk_size |-> res.chunk_size]

\* the batches a consumer's "for chunk in it" receives until next() raises
RECURSIVE Drain(_)
Drain(it) ==
    LET r == ChunkIterator_next(it)
    IN  IF r.err # "" THEN <<>> ELSE <<r.batch>> \o Drain(r.it)

\* the iterator once that loop has ended
RECURSIVE Exhaust(_)
Exhaust(it) ==
    LET r == ChunkIterator_next(it)
    IN  IF r.err # "" THEN it ELSE Exhaust(r.it)

RECURSIVE Concat(_)
Concat(ss) == IF ss = <<>> THEN <<>> ELSE Head(ss) \o Concat(Tail(ss))

\* the call recorded in q, made again with chunk_size unset
EagerOfCall ==
    query_columns(myNonsenseDB, table, q.colnames, None, q.obs_metadata, q.constraint)

\* a chunked call whose unchunked twin returns a non-empty array
ChunkedCall ==
    /\ q.called /\ IsSome(q.chunk_size)
    /\ EagerOfCall.kind = "array" /\ Len(EagerOfCall.rows) > 0

CeilDiv(n, c) == (n + c - 1) \div c

\* C1: for any finite result set and chunk_size >= 1, the batches of a chunked
\* query_columns call, concatenated in yield order, are the array the same call
\* returns with chunk_size unset.
C1_ChunkedEqualsEager ==
    ChunkedCall =>
        /\ q.res.kind = "iterator"
        /\ Concat(Drain(IteratorOf(q.res))) = EagerOfCall.rows

\* C2: every batch of the chunked iterator has chunk_size rows, except the last,
\* which has between 1 and chunk_size; no empty batch is yielded; N rows give
\* ceil(N / chunk_size) batches.
C2_BatchSizes ==
    ChunkedCall =>
        /\ q.res.kind = "iterator"
        /\ LET batches == Drain(IteratorOf(q.res))
               c == q.chunk_size.v
           IN  /\ Len(batches) = CeilDiv(Len(EagerOfCall.rows), c)
               /\ \A i \in 1..Len(batches) :
                     /\ Len(batches[i]) >= 1
                     /\ Len(batches[i]) <= c
                     /\ i < Len(batches) => Len(batches[i]) = c

\* C3: over a finite result set the chunked iterator ends by signalling end of
\* iteration, and it is single-pass: after the end every next() signals the end
\* again, and no delivered row is replayed.
C3_EndsAndSinglePass ==
    ChunkedCall =>
        /\ q.res.kind = "iterator"
        /\ LET done == Exhaust(IteratorOf(q.res))
           IN  /\ ChunkIterator_next(done).err = "StopIteration"
               /\ ChunkIterator_next(ChunkIterator_next(done).it).err = "StopIteration"
               /\ Drain(done) = <<>>

\* the ids of the stored rows and of the returned rows
Ids(rows) == {Get(rows[i], "NonsenseId") : i \in 1..Len(rows)}
StoredRow(id) == table[CHOOSE i \in 1..Len(table) : table[i].id = id]
StoredIds == {table[i].id : i \in 1..Len(table)}

StrictlyInBox(row, b) ==
    /\ b.ra_min < row.ra /\ row.ra < b.ra_max
    /\ b.dec_min < row.dec /\ row.dec < b.dec_max

ViolatesBox(row, b) ==
    \/ row.ra > b.ra_max \/ row.ra < b.ra_min
    \/ row.dec > b.dec_max \/ row.dec < b.dec_min

\* an eager call for registered columns that include the id, with an
\* observation metadata without MJD
EagerSpatialCall ==
    /\ q.called /\ IsNone(q.chunk_size)
    /\ q.colnames \in {None, Some(AllColumns)}
    /\ IsSome(q.obs_metadata)
    /\ IsNone(q.obs_metadata.v.mjd)

BoxOfCall == q.obs_metadata.v.box_bounds.v
CircOfCall == q.obs_metadata.v.circ_bounds.v

PlainBox(b) == 0 <= b.ra_min /\ b.ra_min <= b.ra_max /\ b.ra_max <= FullCircle

\* C4: for a rectangular bound with 0 <= ra_min <= ra_max <= 360, a query
\* filtered by it returns exactly the rows inside the box: every returned row is
\* strictly inside, every row not returned violates one of the four bounds.
C4_BoxReturnsInside ==
    (/\ EagerSpatialCall /\ IsNone(q.constraint)
     /\ IsSome(q.obs_metadata.v.box_bounds) /\ PlainBox(BoxOfCall))
    => /\ q.res.kind = "array"
       /\ \A id \in Ids(q.res.rows) : StrictlyInBox(StoredRow(id), BoxOfCall)
       /\ \A id \in StoredIds \ Ids(q.res.rows) : ViolatesBox(StoredRow(id), BoxOfCall)

Abs(x) == IF x < 0 THEN -x ELSE x

\* Great-circle distance where it is exact in degrees: along a meridian it is
\* the difference of the declinations, along the equator the difference of the
\* right ascensions; it is never less than the difference of the declinations.
KnownInside(row, c) ==
    \/ row.ra = c.ra /\ Abs(row.dec - c.dec) < c.radius
    \/ row.dec = 0 /\ c.dec = 0 /\ Abs(row.ra - c.ra) < c.radius

KnownOutside(row, c) ==
    \/ Abs(row.dec - c.dec) > c.radius
    \/ row.dec = 0 /\ c.dec = 0 /\ Abs(row.ra - c.ra) > c.radius
                   /\ FullCircle - Abs(row.ra - c.ra) > c.radius

\* C5: for a circular bound away from the poles, a query filtered by it returns
\* all and only the rows within the circle (stated on the rows whose distance
\* from the centre is exact: on its meridian, on the equator, or further in
\* declination than the radius).
C5_CircleReturnsWithin ==
    (/\ EagerSpatialCall /\ IsNone(q.constraint)
     /\ IsSome(q.obs_metadata.v.circ_bounds)
     /\ CircOfCall.radius < Abs(90 - Abs(CircOfCall.dec)))
    => /\ q.res.kind = "array"
       /\ \A id \in StoredIds :
             /\ KnownInside(StoredRow(id), CircOfCall) => id \in Ids(q.res.rows)
             /\ KnownOutside(StoredRow(id), CircOfCall) => id \notin Ids(q.res.rows)

\* C6: with a spatial bound and a free-text constraint, the result holds
\* exactly the rows that satisfy both.
C6_BoundAndConstraint ==
    (/\ EagerSpatialCall /\ IsSome(q.constraint)
     /\ IsSome(q.obs_metadata.v.box_bounds) /\ PlainBox(BoxOfCall))
    => /\ q.res.kind = "array"
       /\ \A id \in Ids(q.res.rows) :
             /\ StrictlyInBox(StoredRow(id), BoxOfCall)
             /\ EvalFragment(q.constraint.v, StoredRow(id))
       /\ \A id \in StoredIds \ Ids(q.res.rows) :
             \/ ViolatesBox(StoredRow(id), BoxOfCall)
             \/ ~EvalFragment(q.constraint.v, StoredRow(id))

FieldNames(row) == [k \in 1..Len(row) |-> row[k][1]]

StrictSubsetCall ==
    /\ q.called /\ IsSome(q.colnames)
    /\ Range(q.colnames.v) \subseteq Range(AllColumns)
    /\ Range(q.colnames.v) # Range(AllColumns)
    /\ IsNone(q.obs_metadata) /\ IsNone(q.constraint) /\ IsNone(q.chunk_size)
    /\ Len(table) > 0

\* C7: a query_columns call for a strict subset of the registered columns
\* succeeds, and every returned row has exactly the requested names as its
\* fields, in the requested order, each with its mapped expression's value.
C7_SubsetOfColumns ==
    StrictSubsetCall =>
        /\ q.res.kind = "array"
        /\ q.res.dtype = q.colnames.v
        /\ Len(q.res.rows) = Len(table)
        /\ \A i \in 1..Len(q.res.rows) :
              /\ FieldNames(q.res.rows[i]) = q.colnames.v
              /\ \A k \in 1..Len(q.colnames.v) :
                    q.res.rows[i][k][2] =
                        EvalExpr(Get(columnMap(myNonsenseDB), q.colnames.v[k]), table[i])

\* a call whose observation metadata carries an MJD and whose columns resolve,
\* so that the MJD reaches the constraint builder
MjdCall ==
    /\ q.called /\ IsSome(q.obs_metadata)
    /\ IsSome(q.obs_metadata.v.mjd)
    /\ get_column_query(myNonsenseDB, q.colnames).err = ""

C9_SpatialWithMjdCompletes ==
    (/\ MjdCall /\ IsNone(q.chunk_size)
     /\ \/ IsSome(q.obs_metadata.v.circ_bounds)
        \/ IsSome(q.obs_metadata.v.box_bounds))
    => /\ q.res.kind = "array"
       /\ q.res.err = ""

BothBounds(m) == IsSome(m.circ_bounds) /\ IsSome(m.box_bounds)

\* C10 as stated: in every reachable state of an ObservationMetaData instance
\* at most one of circ_bounds and box_bounds is non-null, and constructing
\* with both non-null raises ValueError.
C10_Original ==
    /\ md.inst => ~BothBounds(md)
    /\ (mdLast.op = "__init__" /\ mdLast.both) => mdLast.err = "ValueError"

\* C10, amended: at most one of circ_bounds and box_bounds is non-null in every
\* reachable state; constructing with both non-null and no opsimid raises
\* ValueError; with an opsimid the bounds are ignored, no ValueError is raised
\* and the instance, if the database object is built, has neither attribute.
C10_MutuallyExclusive ==
    /\ md.inst => ~BothBounds(md)
    /\ (mdLast.op = "__init__" /\ mdLast.both /\ ~mdLast.opsimid)
          => mdLast.err = "ValueError"
    /\ (mdLast.op = "__init__" /\ mdLast.opsimid) =>
          /\ mdLast.err \in {"", "OperationalError"}
          /\ mdLast.err = "" => IsAbsent(md.circ_bounds) /\ IsAbsent(md.box_bounds)

C10_Witness ==
    mdLast.op = "__init__" /\ mdLast.both /\ ~mdLast.opsimid /\ mdLast.err = "ValueError"

(* ======================= the claims, C11 to C20 ======================== *)
RequestedNames ==
    IF IsNone(q.colnames) THEN Keys(columnMap(myNonsenseDB)) ELSE q.colnames.v

UnknownColumnCall ==
    /\ q.called
    /\ \E i \in 1..Len(RequestedNames) : ~Has(columnMap(myNonsenseDB), RequestedNames[i])

\* C11: if a name in colnames is absent from the column map, query_columns
\* raises ValueError before any query is executed: nothing is returned and no
\* cursor is opened.
C11_UnknownColumn ==
    UnknownColumnCall =>
        /\ q.res.kind = "error"
        /\ q.res.err = "ValueError"
        /\ q.res.executes = 0
        /\ q.res.rows = <<>> /\ q.res.cursor = <<>>

C11_Witness == UnknownColumnCall /\ q.res.err = "ValueError" /\ Len(table) > 0

Distinct(seq) == \A i, j \in 1..Len(seq) : seq[i] = seq[j] => i = j

FirstIndex(seq, x) == CHOOSE i \in 1..Len(seq) : seq[i] = x /\ \A j \in 1..(i - 1) : seq[j] # x

\* the projection of the query built for names: the primary-key column once
\* and first, every other requested name once, under its own name and mapped
\* expression, in the order requested
ProjectionOk(names) ==
    LET cm == columnMap(myNonsenseDB)
        cols == get_column_query(myNonsenseDB, q.colnames).query.cols
        idExpr == Get(cm, myNonsenseDB.idColKey)
        others == Range(names) \ {myNonsenseDB.idColKey}
    IN  /\ Len(cols) >= 1
        /\ cols[1].expr = idExpr
        /\ Cardinality({i \in 1..Len(cols) : cols[i].expr = idExpr}) = 1
        /\ \A n \in others :
              /\ Cardinality({i \in 2..Len(cols) : cols[i].label = n}) = 1
              /\ \A i \in 2..Len(cols) : cols[i].label = n => cols[i].expr = Get(cm, n)
        /\ \A i \in 2..Len(cols) : cols[i].label \in others
        /\ \A i, j \in 2..Len(cols) :
              i < j => FirstIndex(names, cols[i].label) <= FirstIndex(names, cols[j].label)

RegisteredColumnsCall ==
    /\ q.called
    /\ \A i \in 1..Len(RequestedNames) : Has(columnMap(myNonsenseDB), RequestedNames[i])

\* C12 as stated: for every list of registered column names (and for the
\* default of all columns) the projected query holds the primary-key column
\* exactly once and first, and every other requested name exactly once, under
\* its own name, in the requested order.
C12_Original == RegisteredColumnsCall => ProjectionOk(RequestedNames)

\* C12, amended: the same for every list of distinct registered column names
\* (a name requested twice is projected twice).
C12_Projection ==
    (RegisteredColumnsCall /\ Distinct(RequestedNames)) => ProjectionOk(RequestedNames)

C12_Witness ==
    /\ RegisteredColumnsCall
    /\ q.colnames = Some(<<"NonsenseMag", "NonsenseId">>)
    /\ get_column_query(myNonsenseDB, q.colnames).query.cols[1].label = "NonsenseId"

FromObjidCall == regLast.op = "from_objid"

DefineCall == regLast.op = "define"

\* C13: from_objid(objid) returns an instance of the class registered under
\* objid when there is one (every defined subclass is in the registry under
\* its objid), and a generic DBObject, without failing, when objid is not
\* registered.
C13_FromObjid ==
    /\ DefineCall => /\ regLast.cls.objid \in DOMAIN registry
                     /\ registry[regLast.cls.objid] = regLast.cls
    /\ (FromObjidCall /\ regLast.objid \in DOMAIN registry) =>
          regLast.res.cls = registry[regLast.objid]
    /\ (FromObjidCall /\ regLast.objid \notin DOMAIN registry /\ regLast.dbUp) =>
          /\ regLast.res.err = ""
          /\ regLast.res.cls = DBObject

C15_ColumnMaps ==
    \A id \in DOMAIN registry :
        LET cls == registry[id]
        IN  ~AttrIsNone(cls, "columns") =>
              LET cols == cls.columns
                  cm == columnMap(cls)
                  tm == typeMap(cls)
              IN  /\ Keys(cm) = [i \in 1..Len(cols) |-> cols[i][1]]
                  /\ Keys(tm) = [i \in 1..Len(cols) |-> cols[i][1]]
                  /\ \A i \in 1..Len(cols) :
                        LET el == cols[i]
                        IN  /\ Get(cm, el[1]) =
                                 (IF el[2] = "None" \/ el[2] = "" THEN el[1] ELSE el[2])
                            /\ Get(tm, el[1]) =
                                 (CASE Len(el) = 2 -> <<"float">>
                                    [] Len(el) = 3 -> <<el[3]>>
                                    [] Len(el) = 4 -> <<el[3], el[4]>>)

C15_Witness ==
    /\ DefineCall
    /\ "Nonsense" \in DOMAIN registry
    /\ Get(columnMap(registry["msstars"]), "umag") = "umag"
    /\ Get(typeMap(registry["msstars"]), "umag") = <<"float">>
    /\ Get(typeMap(registry["msstars"]), "sedFilename") = <<"unicode", "40">>
    /\ Get(columnMap(registry["Nonsense"]), "NonsenseId") = "id"

\* the required attributes a class lacks
Lacking(cls) == {a \in {"tableid", "idColKey", "columns"} : AttrIsNone(cls, a)}

\* C16: for a class lacking one of tableid, idColKey and columns, the class
\* definition succeeds, and constructing an instance raises ValueError before
\* an engine is created or a connection attempted.
C16_MissingAttribute ==
    /\ (DefineCall /\ Cardinality(Lacking(regLast.cls)) = 1) => regLast.res.err = ""
    /\ (FromObjidCall /\ regLast.objid \in DOMAIN registry
          /\ Cardinality(Lacking(regLast.res.cls)) = 1) =>
          /\ regLast.res.err = "ValueError"
          /\ ~regLast.res.engine
          /\ ~regLast.res.connected

\* the epochs of the most recent generateEphemeridesForAllObjects call, a
\* single epoch counting as a list of one
EpochsOfCall == IF moLast.mjdTai.tag = "list" THEN moLast.mjdTai.v ELSE <<moLast.mjdTai.v>>

EpochsOfNextCall ==
    IF moLast'.mjdTai.tag = "list" THEN moLast'.mjdTai.v ELSE <<moLast'.mjdTai.v>>

\* C17: when the batch ephemeris call returns a status other than 0,
\* generateEphemeridesForAllObjects raises and the Ephemerides mapping of no
\* object is changed.
C17_BatchDiscarded ==
    [][(moLast'.op = "generate" /\ moLast'.oorbErr # 0 /\ lists[1] # <<>>) =>
          /\ moLast'.err = "Exception"
          /\ Ephemerides' = Ephemerides]_vars

C17_Witness ==
    /\ moLast.op = "generate"
    /\ moLast.oorbErr # 0
    /\ moLast.err = "Exception"
    /\ Len(lists[1]) = MaxObjs
    /\ \E o \in Range(lists[1]) : Ephemerides[o] # {}
    /\ \E o \in Range(lists[1]) :
          \E j \in 1..Len(EpochsOfCall) : mjdTaiStr(EpochsOfCall[j]) \notin DictKeys(Ephemerides[o])

\* C18: after a successful generateEphemeridesForAllObjects(epochs) every
\* object of the list has an Ephemeris under the epoch string of every epoch
\* (a single epoch counting as a list of one), the one of the last epoch with
\* that string; the entries under other keys are kept; and no step removes a
\* key from an object's Ephemerides.
C18_EphemeridesStored ==
    /\ [](\A o \in DOMAIN Ephemerides :
            \A e1, e2 \in Ephemerides[o] : e1.key = e2.key => e1 = e2)
    /\ [][(moLast'.op = "generate" /\ moLast'.err = "") =>
            \A o \in Range(lists[1]) :
                /\ \A j \in 1..Len(EpochsOfNextCall) :
                      LET key == mjdTaiStr(EpochsOfNextCall[j])
                          last == CHOOSE k \in 1..Len(EpochsOfNextCall) :
                                     /\ mjdTaiStr(EpochsOfNextCall[k]) = key
                                     /\ \A m \in (k + 1)..Len(EpochsOfNextCall) :
                                           mjdTaiStr(EpochsOfNextCall[m]) # key
                      IN  \E e \in Ephemerides'[o] :
                              /\ e.key = key
                              /\ e.val.mjdTai = EpochsOfNextCall[last]
                /\ \A e \in Ephemerides[o] :
                      (\A j \in 1..Len(EpochsOfNextCall) :
                          mjdTaiStr(EpochsOfNextCall[j]) # e.key) => e \in Ephemerides'[o]
         ]_vars
    /\ [][\A o \in DOMAIN Ephemerides :
            DictKeys(Ephemerides[o]) \subseteq DictKeys(Ephemerides'[o])]_vars

C18_Witness ==
    /\ moLast.op = "generate"
    /\ moLast.err = ""
    /\ moLast.mjdTai = [tag |-> "list", v |-> <<0, 1>>]
    /\ Len(lists[1]) = MaxObjs
    /\ \A o \in Range(lists[1]) :
          /\ DictGetItem(Ephemerides[o], mjdTaiStr(1)).val.mjdTai = 1
          /\ DictGetItem(Ephemerides[o], mjdTaiStr(2)).err = ""

FovCall == moLast.op = "getMovingObjectsInFieldofView"

\* C19: getMovingObjectsInFieldofView returns a MovingObjectList on a list
\* of its own, holding exactly the objects of the input list whose ephemeris
\* at the epoch is in the field of view, in the order of the input list; the
\* input list is as it was; and appending to the returned list with
\* addMovingObjectList does not change the input list.
C19_NewIndependentList ==
    /\ [][moLast'.op = "getMovingObjectsInFieldofView" =>
            /\ lists'[1] = lists[1]
            /\ moLast'.err = "" =>
                  LET InView(o) ==
                          LET look == DictGetItem(Ephemerides'[o],
                                                  mjdTaiStr(moLast'.mjdTai.v))
                          IN  /\ look.err = ""
                              /\ isInFieldofView(look.val, moLast'.fov.ra,
                                                 moLast'.fov.dec, moLast'.fov.radius)
                  IN  /\ fovList' # 1
                      /\ fovList' # 0
                      /\ lists'[fovList'] = SelectSeq(lists[1], InView)
         ]_vars
    /\ [][(/\ moLast'.op = "addMovingObjectList"
            /\ moLast'.self = fovList /\ moLast'.self # 1 /\ moLast'.other = 1) =>
            /\ lists'[1] = lists[1]
            /\ lists'[fovList] = lists[fovList] \o lists[1]]_vars

C19_Witness ==
    /\ moLast.op = "addMovingObjectList"
    /\ moLast.self = 2 /\ moLast.other = 1
    /\ fovList = 2
    /\ Len(lists[1]) = MaxObjs
    /\ Len(lists[2]) = MaxObjs + 1
    /\ lists[1] = [i \in 1..MaxObjs |-> i]

\* C20: getMovingObjectsInFieldofView never fails because an object has no
\* ephemeris for the epoch: it computes one, and after the call every object
\* of the list has an ephemeris at the epoch.
C20_ComputedOnDemand ==
    FovCall =>
        /\ moLast.err = ""
        /\ \A o \in Range(lists[1]) :
              mjdTaiStr(moLast.mjdTai.v) \in DictKeys(Ephemerides[o])

(* ======================= the claims, C21 to C28 ======================== *)
\* an object has no ephemeris, or no filter magnitude, under the key
LacksMagnitude(ephs, o, key) ==
    \/ DictGetItem(ephs[o], key).err # ""
    \/ getmagFilter(DictGetItem(ephs[o], key).val).err # ""

\* the errors raised where an ephemeris or a magnitude that was not computed
\* is accessed
PreconditionErrors == {"Exception", "KeyError", "AttributeError"}

C22_CursorReleased ==
    ChunkedCall =>
        /\ q.res.kind = "iterator"
        /\ q.res.executes = 1
        /\ Exhaust(IteratorOf(q.res)).cursor = <<>>

Count(seq, x) == Cardinality({i \in 1..Len(seq) : seq[i] = x})

\* C23: over any sequence of generateEphemeridesForAllObjects calls of one
\* process oorb_init is called exactly once, before the first batch
\* ephemeris call.
C23_InitOnce ==
    /\ Count(oorbLog, "oorb_init") <= 1
    /\ Count(oorbLog, "oorb_ephemeris") > 0 =>
          /\ Count(oorbLog, "oorb_init") = 1
          /\ oorbLog[1] = "oorb_init"

\* C24: every generateEphemeridesForAllObjects call makes exactly one batch
\* ephemeris call, whatever the number of objects and epochs, with one orbit
\* row per object in list order and one (epoch, timescale) row per epoch in
\* the order given; the call is not repeated, a status other than 0 included.
C24_OneBatchCall ==
    moLast.op = "generate" =>
        /\ Len(moLast.calls) = 1
        /\ moLast.calls[1].in_orbits = lists[1]
        /\ moLast.calls[1].in_date_ephems =
              [i \in 1..Len(EpochsOfCall) |-> <<EpochsOfCall[i], 4>>]

\* a query_columns call whose observation metadata carries a rectangular bound
BoxCall == q.called /\ IsSome(q.obs_metadata) /\ IsSome(q.obs_metadata.v.box_bounds)

\* the fragment query_columns had box_bound_constraint build for the call
FragmentOfCall ==
    box_bound_constraint(BoxOfCall.ra_min, BoxOfCall.ra_max,
                         BoxOfCall.dec_min, BoxOfCall.dec_max,
                         myNonsenseDB.raColName, myNonsenseDB.decColName)

UpperWrapForm(b) ==
    Bound("not between", myNonsenseDB.raColName, b.ra_min, b.ra_max % FullCircle,
          myNonsenseDB.decColName, b.dec_min, b.dec_max)

SimpleForm(b) ==
    Bound("between", myNonsenseDB.raColName, b.ra_min, b.ra_max,
          myNonsenseDB.decColName, b.dec_min, b.dec_max)

DecOnlyForm(b) ==
    Bound("none", myNonsenseDB.raColName, 0, 0,
          myNonsenseDB.decColName, b.dec_min, b.dec_max)

\* C25: box_bound_constraint emits the upper-side wraparound form exactly
\* when ra_min >= 0 and ra_max > 360, the simple form for every bound with
\* ra_min >= 0 and ra_max <= 360, and the Dec-only predicate for ra_min < 0
\* and ra_max > 360.
C25_BranchSelection ==
    BoxCall =>
        /\ (FragmentOfCall = UpperWrapForm(BoxOfCall))
              <=> (BoxOfCall.ra_min >= 0 /\ BoxOfCall.ra_max > FullCircle)
        /\ (BoxOfCall.ra_min >= 0 /\ BoxOfCall.ra_max <= FullCircle)
              => FragmentOfCall = SimpleForm(BoxOfCall)
        /\ (BoxOfCall.ra_min < 0 /\ BoxOfCall.ra_max > FullCircle)
              => FragmentOfCall = DecOnlyForm(BoxOfCall)

\* C26: from_obshistid called with makeBoxBounds=True raises
\* NotImplementedError and leaves no circ_bounds set by the call, whatever
\* makeCircBounds is.
C26_BoxBoundsUnsupported ==
    [][(mdLast'.op = "from_obshistid" /\ mdLast'.makeBoxBounds)
        => /\ mdLast'.err = "NotImplementedError"
           /\ md'.circ_bounds = md.circ_bounds]_vars

LowerWrapBox(b) == b.ra_min < 0 /\ 0 <= b.ra_max /\ b.ra_max <= FullCircle

InWrappedWindow(x, b) == x >= b.ra_min % FullCircle \/ x <= b.ra_max

\* C27: for a rectangular bound with ra_min < 0 and 0 <= ra_max <= 360, the
\* predicate of box_bound_constraint accepts a stored RA x in [0, 360) only
\* if x >= ra_min mod 360 or x <= ra_max, and it accepts every such x whose
\* Dec is within [dec_min, dec_max]: the rows an eager query returns under
\* the bound are those rows.
C27_LowerWraparound ==
    (/\ EagerSpatialCall /\ IsNone(q.constraint)
     /\ IsSome(q.obs_metadata.v.box_bounds) /\ LowerWrapBox(BoxOfCall))
    => /\ q.res.kind = "array"
       /\ \A id \in Ids(q.res.rows) : InWrappedWindow(StoredRow(id).ra, BoxOfCall)
       /\ \A id \in StoredIds :
             (/\ InWrappedWindow(StoredRow(id).ra, BoxOfCall)
              /\ Between(StoredRow(id).dec, BoxOfCall.dec_min, BoxOfCall.dec_max))
             => id \in Ids(q.res.rows)

\* C28: addMovingObjectList(other) always terminates and appends each object
\* of other exactly once, in order, so that countList afterwards is the
\* receiver's count plus other's count before the call, also when other is
\* the receiver itself or holds the same underlying list.
C28_AddTerminates ==
    [][moLast'.op = "addMovingObjectList" =>
          /\ moLast'.err = ""
          /\ lists'[moLast'.self] = lists[moLast'.self] \o lists[moLast'.other]
          /\ Len(lists'[moLast'.self]) =
                Len(lists[moLast'.self]) + Len(lists[moLast'.other])]_vars

====
